---------------------------- MODULE Spec2Model ----------------------------
(***************************************************************************)
(* Model of zillow-wholesale-automation                                    *)
(*   src/config.py                     SearchConfig and its sub-sections   *)
(*   src/automation/zillow_scraper.py  ZillowWholesaleScraper               *)
(*                                                                         *)
(* config.py builds its price range with Python floats.  A Python float is *)
(* an IEEE-754 binary64 number, so the arithmetic of calculate_price_range *)
(* is modelled with correctly rounded (round-half-to-even, 53-bit)         *)
(* operations on exact values m * 2^e.  The mantissas exceed 32-bit        *)
(* integers, so they are kept as little-endian sequences of 15-bit limbs.  *)
(***************************************************************************)
EXTENDS Integers, Sequences, FiniteSets, TLC

(***************************************************************************)
(* Natural numbers of any size: <<>> is 0, a[1] the least significant limb *)
(***************************************************************************)
Base == 2^15

RECURSIVE BNorm(_)
BNorm(a) ==
    IF a = <<>> THEN <<>>
    ELSE IF a[Len(a)] = 0 THEN BNorm(SubSeq(a, 1, Len(a) - 1))
    ELSE a

RECURSIVE BFromInt(_)
BFromInt(n) == IF n = 0 THEN <<>> ELSE <<n % Base>> \o BFromInt(n \div Base)

RECURSIVE BToInt(_)
BToInt(a) == IF a = <<>> THEN 0 ELSE a[1] + Base * BToInt(Tail(a))

BHead(a) == IF a = <<>> THEN 0 ELSE a[1]
BTail(a) == IF a = <<>> THEN <<>> ELSE Tail(a)

RECURSIVE BAddC(_, _, _)
BAddC(a, b, c) ==
    IF a = <<>> /\ b = <<>> THEN (IF c = 0 THEN <<>> ELSE <<c>>)
    ELSE LET x == BHead(a) + BHead(b) + c
         IN  <<x % Base>> \o BAddC(BTail(a), BTail(b), x \div Base)

BAdd(a, b) == BAddC(a, b, 0)

RECURSIVE BSubB(_, _, _)
BSubB(a, b, br) ==
    IF a = <<>> THEN <<>>
    ELSE LET x == a[1] - BHead(b) - br
         IN  IF x < 0 THEN <<x + Base>> \o BSubB(Tail(a), BTail(b), 1)
                      ELSE <<x>> \o BSubB(Tail(a), BTail(b), 0)

\* a - b for a >= b
BSub(a, b) == BNorm(BSubB(a, b, 0))

RECURSIVE BCmpFrom(_, _, _)
BCmpFrom(a, b, i) ==
    IF i = 0 THEN 0
    ELSE IF a[i] < b[i] THEN -1
    ELSE IF a[i] > b[i] THEN 1
    ELSE BCmpFrom(a, b, i - 1)

\* -1, 0 or 1 as a < b, a = b, a > b
BCmp(a, b) ==
    IF Len(a) < Len(b) THEN -1
    ELSE IF Len(a) > Len(b) THEN 1
    ELSE BCmpFrom(a, b, Len(a))

RECURSIVE BMulSmallC(_, _, _)
\* a * k + c for 0 <= k, c < Base
BMulSmallC(a, k, c) ==
    IF a = <<>> THEN (IF c = 0 THEN <<>> ELSE <<c>>)
    ELSE LET x == a[1] * k + c
         IN  <<x % Base>> \o BMulSmallC(Tail(a), k, x \div Base)

BMulSmall(a, k) == BNorm(BMulSmallC(a, k, 0))

BLimbShift(a) == IF a = <<>> THEN <<>> ELSE <<0>> \o a

RECURSIVE BMul(_, _)
BMul(a, b) ==
    IF b = <<>> \/ a = <<>> THEN <<>>
    ELSE BAdd(BMulSmall(a, b[1]), BLimbShift(BMul(a, Tail(b))))

RECURSIVE BLimbsUp(_, _)
BLimbsUp(a, n) == IF n = 0 THEN a ELSE BLimbsUp(BLimbShift(a), n - 1)

\* a * 2^n
BShl(a, n) == BMulSmall(BLimbsUp(a, n \div 15), 2^(n % 15))

RECURSIVE BDivSmallFrom(_, _, _, _)
\* limbs i..1 of a divided by k, most significant first, with running remainder
BDivSmallFrom(a, k, i, rem) ==
    IF i = 0 THEN <<>>
    ELSE LET x == rem * Base + a[i]
         IN  BDivSmallFrom(a, k, i - 1, x % k) \o <<x \div k>>

\* a \div 2^n
BShr(a, n) ==
    LET drop == n \div 15
        rest == IF drop >= Len(a) THEN <<>> ELSE SubSeq(a, drop + 1, Len(a))
    IN  BNorm(BDivSmallFrom(rest, 2^(n % 15), Len(rest), 0))

RECURSIVE LimbBits(_)
LimbBits(x) == IF x = 0 THEN 0 ELSE 1 + LimbBits(x \div 2)

BitLen(a) == IF a = <<>> THEN 0 ELSE 15 * (Len(a) - 1) + LimbBits(a[Len(a)])

BBit(a, i) ==
    IF (i \div 15) + 1 > Len(a) THEN 0
    ELSE (a[(i \div 15) + 1] \div 2^(i % 15)) % 2

BOdd(a) == a # <<>> /\ a[1] % 2 = 1

RECURSIVE BQuotDigit(_, _, _, _)
\* the largest k < Base with d * k <= r, found bit by bit (r < d * Base)
BQuotDigit(r, d, bit, acc) ==
    IF bit < 0 THEN acc
    ELSE IF BCmp(BMulSmall(d, acc + 2^bit), r) <= 0
         THEN BQuotDigit(r, d, bit - 1, acc + 2^bit)
         ELSE BQuotDigit(r, d, bit - 1, acc)

RECURSIVE BDivLimbs(_, _, _, _, _)
\* schoolbook long division: limbs i..1 of a still to bring down
BDivLimbs(a, d, i, q, r) ==
    IF i = 0 THEN <<BNorm(q), r>>
    ELSE LET r2 == BNorm(<<a[i]>> \o r)
             k  == BQuotDigit(r2, d, 14, 0)
         IN  BDivLimbs(a, d, i - 1, <<k>> \o q, BSub(r2, BMulSmall(d, k)))

\* <<a \div d, a % d>> for d > 0
BDivMod(a, d) ==
    IF d = <<1>> THEN <<a, <<>>>>
    ELSE BDivLimbs(a, d, Len(a), <<>>, <<>>)

(***************************************************************************)
(* Python floats (binary64): the value (-1)^neg * m * 2^e, m a natural.    *)
(* Every operation returns the double nearest to the exact result, ties to *)
(* the even mantissa.  Subnormals, overflow and infinities are outside the *)
(* magnitudes the model draws and are not modelled.                        *)
(***************************************************************************)
Precision == 53

\* the one element of a singleton set: The({f(x) : x \in {e}}) is f(e) with e
\* evaluated once
The(S) == CHOOSE x \in S : TRUE

FZero == [neg |-> FALSE, m |-> <<>>, e |-> 0]

\* <<q, sticky, s>>: q = floor(n * 2^s / d) has Precision + 1 bits, sticky says
\* whether anything nonzero lies below q's last bit
FQuotient(n, d) ==
    LET s0 == (Precision + 1) - (BitLen(n) - BitLen(d))
    IN  The({IF BitLen(qr[1]) = Precision + 2
             THEN <<BShr(qr[1], 1), qr[2] # <<>> \/ BOdd(qr[1]), s0 - 1>>
             ELSE <<qr[1], qr[2] # <<>>, s0>> :
             qr \in {IF s0 >= 0 THEN BDivMod(BShl(n, s0), d)
                                ELSE BDivMod(n, BShl(d, -s0))}})

\* q without its last bit, rounded to nearest, ties to even
FHalfEven(q, sticky) ==
    The({IF BOdd(q) /\ (sticky \/ BOdd(mant)) THEN BAdd(mant, <<1>>) ELSE mant :
         mant \in {BShr(q, 1)}})

\* the float (-1)^neg * m * 2^e for a mantissa of Precision or Precision + 1 bits
FPack(neg, m, e) ==
    IF BitLen(m) = Precision + 1
    THEN [neg |-> neg, m |-> BShr(m, 1), e |-> e + 1]
    ELSE [neg |-> neg, m |-> m, e |-> e]

FRoundOf(neg, n, d, e) ==
    IF n = <<>> THEN [neg |-> neg, m |-> <<>>, e |-> 0]
    ELSE The({The({FPack(neg, m, e + 1 - t[3]) : m \in {FHalfEven(t[1], t[2])}}) :
              t \in {FQuotient(n, d)}})

\* the double nearest to (-1)^neg * (n / d) * 2^e, for naturals n and d > 0
FRound(neg, n, d, e) == The({FRoundOf(neg, nd[1], nd[2], e) : nd \in {<<n, d>>}})

\* an int converted to float (exact below 2^53)
FromInt(i) == [neg |-> i < 0, m |-> BFromInt(IF i < 0 THEN -i ELSE i), e |-> 0]

\* the float a decimal literal p/q (0.10 is 10/100) denotes
FromRatio(p, q) == FRound(FALSE, BFromInt(p), BFromInt(q), 0)

FIsZero(a) == a.m = <<>>

FMul(a, b) == FRound(a.neg # b.neg, BMul(a.m, b.m), <<1>>, a.e + b.e)

\* a / b for b nonzero (Python raises ZeroDivisionError otherwise)
FDiv(a, b) == FRound(a.neg # b.neg, a.m, b.m, a.e - b.e)

\* fa - fb: sign and magnitude of ma * 2^lo - mb * 2^lo
FSubAligned(fa, fb, ma, mb, lo) ==
    IF fa.neg # fb.neg THEN FRound(fa.neg, BAdd(ma, mb), <<1>>, lo)
    ELSE IF BCmp(ma, mb) >= 0 THEN FRound(fa.neg, BSub(ma, mb), <<1>>, lo)
    ELSE FRound(~fa.neg, BSub(mb, ma), <<1>>, lo)

FSub(fa, fb) ==
    The({FSubAligned(fa, fb, BShl(fa.m, fa.e - lo), BShl(fb.m, fb.e - lo), lo) :
         lo \in {IF fa.e < fb.e THEN fa.e ELSE fb.e}})

\* int(x): truncation toward zero
FInt(a) ==
    The({IF a.neg THEN -mag ELSE mag :
         mag \in {IF a.e >= 0 THEN BToInt(BShl(a.m, a.e))
                              ELSE BToInt(BShr(a.m, -a.e))}})

(***************************************************************************)
(* src/config.py                                                           *)
(*                                                                         *)
(* An Optional[...] field is <<>> for None and <<v>> for the value v.      *)
(* A rate (management_fee_rate, down_payment_rate) is carried as its       *)
(* number of hundredths p and denotes the float nearest to p / 100: the    *)
(* literals 0.0, 0.10, 0.20, 1.0 and the quotients custom / 100.0 are all  *)
(* of that form.                                                           *)
(*                                                                         *)
(* The sub-sections of a SearchConfig are objects on a heap, and a         *)
(* SearchConfig holds references to them: the defaults of lines 92-96 are  *)
(* evaluated once, in the class body, so every instance that is not given  *)
(* a sub-section of its own refers to the same default object.  (This is   *)
(* the behaviour of the interpreters that accept the class, up to Python   *)
(* 3.10; from 3.11 on dataclasses rejects these defaults and the module    *)
(* does not import at all.)                                                *)
(***************************************************************************)
VARIABLES heap, configs, calculated, ret,          \* SearchConfig instances
          property_data, scored,                    \* one call of the scorer
          config, driver, properties, taken, searches, analyzed, exported, out
                                                    \* one ZillowWholesaleScraper

None == <<>>
Some(v) == <<v>>

\* Python truthiness of an Optional number: None and 0 are falsy
Truthy(opt) == opt # None /\ opt[1] # 0

\* "x or d"
OrElse(opt, d) == IF Truthy(opt) THEN opt[1] ELSE d

PropertyConfig(any_age, built_after_1980) ==
    [single_family |-> TRUE, small_multifamily |-> FALSE, any_age |-> any_age,
     built_after_1980 |-> built_after_1980, built_after_1990 |-> FALSE,
     built_after_2000 |-> FALSE]

RentalStrategyConfig(market_rate, section_8) ==
    [market_rate |-> market_rate, section_8 |-> section_8]

ManagementConfig(property_managed, self_managed) ==
    [property_managed |-> property_managed, self_managed |-> self_managed,
     use_default_fee |-> TRUE, custom_fee |-> None]

LocationConfig ==
    [input_method |-> "manual", use_county |-> TRUE, use_zip |-> FALSE,
     state |-> "NC", county |-> "Wake", zip_code |-> "", custom_radius |-> None]

InvestmentConfig(cash_purchase) ==
    [cash_purchase |-> cash_purchase, financed_purchase |-> FALSE,
     use_default_down |-> TRUE, custom_down |-> None]

\* ManagementConfig.management_fee_rate, in hundredths
management_fee_rate(m) ==
    IF m.self_managed THEN 0
    ELSE IF m.use_default_fee THEN 10
    ELSE OrElse(m.custom_fee, 10)

\* LocationConfig.search_radius
search_radius(l) ==
    IF Truthy(l.custom_radius) THEN l.custom_radius[1]
    ELSE IF l.use_county THEN 15
    ELSE 5

\* InvestmentConfig.down_payment_rate, in hundredths
down_payment_rate(i) ==
    IF i.cash_purchase THEN 100
    ELSE IF i.use_default_down THEN 20
    ELSE OrElse(i.custom_down, 20)

\* SearchConfig(...): the sub-sections not given are the class's default objects
SearchConfig(target_roi, min_days_on_market, property, rental_strategy, management, location, investment) ==
    [target_roi |-> target_roi, max_results |-> 10,
     min_days_on_market |-> min_days_on_market,
     property |-> property, rental_strategy |-> rental_strategy,
     management |-> management, location |-> location, investment |-> investment,
     min_price |-> None, max_price |-> None]

\* the heap after the module body has run
InitialHeap ==
    [d_property        |-> PropertyConfig(TRUE, FALSE),
     d_rental_strategy |-> RentalStrategyConfig(TRUE, FALSE),
     d_management      |-> ManagementConfig(TRUE, FALSE),
     d_location        |-> LocationConfig,
     d_investment      |-> InvestmentConfig(TRUE),
     cf_property       |-> PropertyConfig(TRUE, TRUE),
     cf_management     |-> ManagementConfig(TRUE, FALSE),
     cf_investment     |-> InvestmentConfig(TRUE),
     st_property       |-> PropertyConfig(TRUE, FALSE),
     st_management     |-> ManagementConfig(TRUE, TRUE),
     st_investment     |-> InvestmentConfig(TRUE),
     s8_rental_strategy |-> RentalStrategyConfig(FALSE, TRUE),
     s8_property       |-> PropertyConfig(TRUE, TRUE),
     s8_management     |-> ManagementConfig(TRUE, FALSE)]

CASH_FLOW_CONFIG ==
    SearchConfig(12, 30, "cf_property", "d_rental_strategy", "cf_management",
                 "d_location", "cf_investment")

SUBJECT_TO_CONFIG ==
    SearchConfig(15, 90, "st_property", "d_rental_strategy", "st_management",
                 "d_location", "st_investment")

SECTION_8_CONFIG ==
    SearchConfig(10, 30, "s8_property", "s8_rental_strategy", "s8_management",
                 "d_location", "d_investment")

\* config = SearchConfig() of the module's example usage
DefaultConfig ==
    SearchConfig(10, 30, "d_property", "d_rental_strategy", "d_management",
                 "d_location", "d_investment")

Instances == {"config", "CASH_FLOW_CONFIG", "SUBJECT_TO_CONFIG", "SECTION_8_CONFIG"}

\* the sub-section objects a SearchConfig's attributes lead to
management(c) == heap[configs[c].management]
location(c)   == heap[configs[c].location]
investment(c) == heap[configs[c].investment]
property(c)   == heap[configs[c].property]

(***************************************************************************)
(* calculate_price_range, lines 126-147, on floats                         *)
(***************************************************************************)
Hundredths(p) == FromRatio(p, 100)

\* line 129: avg_rent * (1 - self.management.management_fee_rate)
NetRent(avg_rent, fee) == FMul(FromInt(avg_rent), FSub(FromInt(1), Hundredths(fee)))

\* lines 132-133: net_rent * 0.5, then * 12
AnnualNoi(net_rent) ==
    The({FMul(monthly_noi, FromInt(12)) : monthly_noi \in {FMul(net_rent, FromRatio(1, 2))}})

\* line 136: self.target_roi / 100
TargetRoiDecimal(target_roi) == FDiv(FromInt(target_roi), FromInt(100))

\* lines 138-143
MaxPrice(annual_noi, target_roi_decimal, cash_purchase, down) ==
    IF cash_purchase THEN FDiv(annual_noi, target_roi_decimal)
    ELSE The({FDiv(q, Hundredths(down)) : q \in {FDiv(annual_noi, target_roi_decimal)}})

\* lines 146-147: the two bounds stored
Bounds(max_price) ==
    [kind |-> "return",
     max_price |-> FInt(FMul(max_price, FromRatio(85, 100))),
     min_price |-> FInt(FMul(max_price, FromRatio(4, 10)))]

\* what calculate_price_range stores, or the exception it raises
PriceRange(avg_rent, fee, target_roi, cash_purchase, down) ==
    The({IF FIsZero(t)
         THEN [kind |-> "raise", exc |-> "ZeroDivisionError"]
         ELSE The({Bounds(max_price) :
                   max_price \in {The({MaxPrice(annual_noi, t, cash_purchase, down) :
                                       annual_noi \in {The({AnnualNoi(net_rent) :
                                           net_rent \in {NetRent(avg_rent, fee)}})}})}}) :
         t \in {TargetRoiDecimal(target_roi)}})

(***************************************************************************)
(* The values the operations are called with                               *)
(***************************************************************************)
AvgRents     == {0, 350, 1400}
TargetRois   == {-7, 0, 7, 10}
CustomFees   == {None, Some(8), Some(150)}
CustomDowns  == {None, Some(25)}
Counties     == {"Wake", "Mecklenburg"}
CustomRadii  == {None, Some(25)}

\* every rate the management and investment settings above can yield
FeeRates  == {0, 10} \cup {OrElse(f, 10) : f \in CustomFees}
DownRates == {100, 20} \cup {OrElse(d, 20) : d \in CustomDowns}

\* PriceRange, evaluated once for each input the model draws
PriceRangeInputs == AvgRents \X FeeRates \X TargetRois \X BOOLEAN \X DownRates

PriceRangeTable ==
    {<<k, PriceRange(k[1], k[2], k[3], k[4], k[5])>> :
        k \in {i \in PriceRangeInputs : i[4] => i[5] = 100}}

PriceRangeOf(avg_rent, fee, target_roi, cash_purchase, down) ==
    LET key == <<avg_rent, fee, target_roi, cash_purchase,
                 IF cash_purchase THEN 100 ELSE down>>
    IN  (CHOOSE t \in PriceRangeTable : t[1] = key)[2]

(***************************************************************************)
(* Operations on a SearchConfig.  ret is the outcome of the last call:     *)
(* the operation, the instance it was called on, its argument, and what it *)
(* returned or raised.                                                     *)
(***************************************************************************)
cfgVars == <<heap, configs, calculated, ret>>
scoreVars == <<property_data, scored>>
scraperVars == <<config, driver, properties, taken, searches, analyzed, exported, out>>

vars == <<cfgVars, scoreVars, scraperVars>>

Outcome(op, c, arg, kind, value) ==
    [op |-> op, cfg |-> c, arg |-> arg, kind |-> kind, value |-> value]

\* config.<section>.<field> = value
SetSectionField(c, section, field, value) ==
    /\ heap' = [heap EXCEPT ![configs[c][section]][field] = value]
    /\ ret' = Outcome("setattr", c, None, "return", None)
    /\ UNCHANGED <<configs, calculated, scoreVars, scraperVars>>

SetCounty(c, v)         == SetSectionField(c, "location", "county", v)
SetCustomRadius(c, v)   == SetSectionField(c, "location", "custom_radius", v)
SetSelfManaged(c, b)    == SetSectionField(c, "management", "self_managed", b)
SetUseDefaultFee(c, b)  == SetSectionField(c, "management", "use_default_fee", b)
SetCustomFee(c, f)      == SetSectionField(c, "management", "custom_fee", f)
SetCashPurchase(c, b)   == SetSectionField(c, "investment", "cash_purchase", b)
SetUseDefaultDown(c, b) == SetSectionField(c, "investment", "use_default_down", b)
SetCustomDown(c, d)     == SetSectionField(c, "investment", "custom_down", d)

\* config.target_roi = r
SetTargetRoi(c, r) ==
    /\ configs' = [configs EXCEPT ![c].target_roi = r]
    /\ ret' = Outcome("setattr", c, None, "return", None)
    /\ UNCHANGED <<heap, calculated, scoreVars, scraperVars>>

\* the dict to_zillow_params builds
to_zillow_params(c) ==
    LET params == [location_type |-> IF location(c).use_county THEN "county" ELSE "zip",
                   county |-> location(c).county,
                   state |-> location(c).state,
                   zip_code |-> location(c).zip_code,
                   radius |-> search_radius(location(c)),
                   max_results |-> configs[c].max_results,
                   min_days_on_market |-> configs[c].min_days_on_market,
                   property_types |->
                       [single_family |-> property(c).single_family,
                        multifamily |-> property(c).small_multifamily]]
        with_min == IF Truthy(configs[c].min_price)
                    THEN params @@ ("min_price" :> configs[c].min_price[1])
                    ELSE params
    IN  IF Truthy(configs[c].max_price)
        THEN with_min @@ ("max_price" :> configs[c].max_price[1])
        ELSE with_min

ToZillowParams(c) ==
    /\ ret' = Outcome("to_zillow_params", c, None, "return", to_zillow_params(c))
    /\ UNCHANGED <<heap, configs, calculated, scoreVars, scraperVars>>

CalculatePriceRange(c, avg_rent) ==
    LET r == PriceRangeOf(avg_rent, management_fee_rate(management(c)),
                          configs[c].target_roi, investment(c).cash_purchase,
                          down_payment_rate(investment(c)))
    IN  IF r.kind = "raise"
        THEN /\ ret' = Outcome("calculate_price_range", c, avg_rent, "raise", r.exc)
             /\ UNCHANGED <<heap, configs, calculated, scoreVars, scraperVars>>
        ELSE /\ configs' = [configs EXCEPT ![c].max_price = Some(r.max_price),
                                           ![c].min_price = Some(r.min_price)]
             /\ calculated' = calculated \cup {c}
             /\ ret' = Outcome("calculate_price_range", c, avg_rent, "return", None)
             /\ UNCHANGED <<heap, scoreVars, scraperVars>>

ConfigInit ==
    /\ heap = InitialHeap
    /\ configs = [config            |-> DefaultConfig,
                  CASH_FLOW_CONFIG  |-> CASH_FLOW_CONFIG,
                  SUBJECT_TO_CONFIG |-> SUBJECT_TO_CONFIG,
                  SECTION_8_CONFIG  |-> SECTION_8_CONFIG]
    /\ calculated = {}
    /\ ret = Outcome("import", "config", None, "return", None)

(***************************************************************************)
(* Spec: one search session on config = SearchConfig(): its settings are   *)
(* changed field by field, the price range is calculated and the search    *)
(* parameters are read, in any order and any number of times.              *)
(***************************************************************************)
NoCall == [kind |-> "none"]

\* no record is being scored
ScoreIdle ==
    /\ property_data = [address |-> "-"]
    /\ scored = NoCall

\* no scraper has been constructed
ScraperIdle ==
    /\ config = [location_type |-> "-"]
    /\ driver = None
    /\ properties = <<>>
    /\ taken = <<>>
    /\ searches = 0
    /\ analyzed = None
    /\ exported = None
    /\ out = NoCall

Init == ConfigInit /\ ScoreIdle /\ ScraperIdle

Next ==
    \/ \E r \in TargetRois : SetTargetRoi("config", r)
    \/ \E b \in BOOLEAN : SetSelfManaged("config", b)
    \/ \E b \in BOOLEAN : SetUseDefaultFee("config", b)
    \/ \E f \in CustomFees : SetCustomFee("config", f)
    \/ \E b \in BOOLEAN : SetCashPurchase("config", b)
    \/ \E b \in BOOLEAN : SetUseDefaultDown("config", b)
    \/ \E d \in CustomDowns : SetCustomDown("config", d)
    \/ \E a \in AvgRents : CalculatePriceRange("config", a)
    \/ ToZillowParams("config")

Spec == Init /\ [][Next]_vars

(***************************************************************************)
(* SpecInstances: the four SearchConfig instances the module holds (its    *)
(* three presets and config = SearchConfig()) side by side, each           *)
(* customised through its own attributes.                                  *)
(***************************************************************************)
NextInstances ==
    \E c \in Instances :
        \/ \E v \in Counties : SetCounty(c, v)
        \/ \E v \in CustomRadii : SetCustomRadius(c, v)
        \/ \E b \in BOOLEAN : SetSelfManaged(c, b)
        \/ \E b \in BOOLEAN : SetCashPurchase(c, b)
        \/ ToZillowParams(c)

SpecInstances == Init /\ [][NextInstances]_vars

(***************************************************************************)
(* Claims about SearchConfig                                               *)
(***************************************************************************)
CalledOn(op, c) == ret.op = op /\ ret.cfg = c

\* floor(n / d) for d # 0
FloorDiv(n, d) == IF d > 0 THEN n \div d ELSE (-n) \div (-d)

\* floor(P * pct / 100) for the P of the specification, in exact arithmetic:
\* P = avg_rent * (1 - fee/100) * 0.5 * 12 / (target_roi / 100), divided by
\* down/100 for a financed purchase (a cash purchase is down = 100)
ExactBound(avg_rent, fee, target_roi, cash_purchase, down, pct) ==
    FloorDiv(avg_rent * (100 - fee) * 6 * pct,
             target_roi * (IF cash_purchase THEN 100 ELSE down))

\* C1: the stored bounds are integers that are both unset or both set with
\* min_price <= max_price, in every state; and after calculate_price_range
\* with avg_rent >= 0 and target_roi > 0, under any management and investment
\* settings, max_price >= min_price >= 0.
C1_BoundsOrdered ==
    \A c \in Instances :
        /\ \/ configs[c].min_price = None /\ configs[c].max_price = None
           \/ /\ configs[c].min_price # None /\ configs[c].max_price # None
              /\ configs[c].min_price[1] \in Int /\ configs[c].max_price[1] \in Int
              /\ configs[c].min_price[1] <= configs[c].max_price[1]
        /\ (/\ CalledOn("calculate_price_range", c) /\ ret.kind = "return"
            /\ ret.arg >= 0 /\ configs[c].target_roi > 0)
           => /\ 0 <= configs[c].min_price[1]
              /\ configs[c].min_price[1] <= configs[c].max_price[1]

\* C2: calculate_price_range stores max_price = floor(P * 0.85) and
\* min_price = floor(P * 0.4) for the P of the specification.  Stated on the
\* contract's own domain: target_roi > 0 and a fee rate of at most 100%.
C2_BoundsAreFloors ==
    \A c \in Instances :
        (/\ CalledOn("calculate_price_range", c) /\ ret.kind = "return"
         /\ configs[c].target_roi > 0
         /\ management_fee_rate(management(c)) <= 100)
        => /\ configs[c].max_price =
                Some(ExactBound(ret.arg, management_fee_rate(management(c)),
                                configs[c].target_roi, investment(c).cash_purchase,
                                down_payment_rate(investment(c)), 85))
           /\ configs[c].min_price =
                Some(ExactBound(ret.arg, management_fee_rate(management(c)),
                                configs[c].target_roi, investment(c).cash_purchase,
                                down_payment_rate(investment(c)), 40))

\* C3: with target_roi zero or negative, calculate_price_range fails with an
\* error that reaches the caller and stores no bounds.
C3_NonPositiveRoiRejected ==
    [][\A c \in Instances :
          (/\ ret'.op = "calculate_price_range" /\ ret'.cfg = c
           /\ configs[c].target_roi <= 0)
          => /\ ret'.kind = "raise"
             /\ configs'[c].min_price = configs[c].min_price
             /\ configs'[c].max_price = configs[c].max_price]_vars

\* C7: to_zillow_params changes nothing, and its result has min_price and
\* max_price exactly when calculate_price_range has completed on that config
\* (then with the stored values), also when both bounds are 0.  Stated for
\* configurations whose target_roi is positive.
C7_ParamsCarryBoundsIffCalculated ==
    [][\A c \in Instances :
          (ret'.op = "to_zillow_params" /\ ret'.cfg = c /\ configs[c].target_roi > 0)
          => /\ UNCHANGED <<heap, configs, calculated>>
             /\ ("min_price" \in DOMAIN ret'.value) <=> (c \in calculated)
             /\ ("max_price" \in DOMAIN ret'.value) <=> (c \in calculated)
             /\ (c \in calculated)
                => /\ ret'.value.min_price = configs[c].min_price[1]
                   /\ ret'.value.max_price = configs[c].max_price[1]]_vars

\* everything that can be read from one SearchConfig: its fields, the fields
\* of its sub-sections, the derived values and the search parameters
Observed(c) ==
    [fields     |-> configs[c],
     property   |-> property(c),
     rental_strategy |-> heap[configs[c].rental_strategy],
     management |-> management(c),
     location   |-> location(c),
     investment |-> investment(c),
     fee_rate   |-> management_fee_rate(management(c)),
     down_rate  |-> down_payment_rate(investment(c)),
     radius     |-> search_radius(location(c)),
     params     |-> to_zillow_params(c)]

\* C9: setting a field of one instance's sub-section leaves every field and
\* every derived value of every other instance unchanged.
C9_InstancesIndependent ==
    [][\A c \in Instances :
          (ret'.op = "setattr" /\ ret'.cfg = c)
          => \A o \in Instances \ {c} : Observed(o)' = Observed(o)]_vars

(***************************************************************************)
(* ZillowWholesaleScraper.calculate_opportunity_score.  A listing record   *)
(* is a dict, here a function from its keys; the text of days_on_market is *)
(* a sequence of characters, which int() parses as Python does.            *)
(***************************************************************************)
DigitValue ==
    ("0" :> 0) @@ ("1" :> 1) @@ ("2" :> 2) @@ ("3" :> 3) @@ ("4" :> 4) @@
    ("5" :> 5) @@ ("6" :> 6) @@ ("7" :> 7) @@ ("8" :> 8) @@ ("9" :> 9)

Digits == DOMAIN DigitValue

\* str.strip(): int() ignores whitespace around the literal
RECURSIVE LStrip(_)
LStrip(s) == IF s # <<>> /\ s[1] = " " THEN LStrip(Tail(s)) ELSE s

RECURSIVE RStrip(_)
RStrip(s) ==
    IF s # <<>> /\ s[Len(s)] = " " THEN RStrip(SubSeq(s, 1, Len(s) - 1)) ELSE s

Strip(s) == RStrip(LStrip(s))

\* the value of a string of digits, most significant first
RECURSIVE DecimalValue(_, _)
DecimalValue(s, acc) ==
    IF s = <<>> THEN acc ELSE DecimalValue(Tail(s), 10 * acc + DigitValue[s[1]])

\* int(text): None when Python raises ValueError.  An optional sign, then
\* digits, where single underscores may separate digits.
ParseInt(text) ==
    LET t == Strip(text)
        signed == t # <<>> /\ t[1] \in {"+", "-"}
        body == IF signed THEN Tail(t) ELSE t
        valid == /\ body # <<>>
                 /\ \A i \in 1..Len(body) :
                        \/ body[i] \in Digits
                        \/ /\ body[i] = "_"
                           /\ 1 < i /\ i < Len(body)
                           /\ body[i - 1] \in Digits
                           /\ body[i + 1] \in Digits
        magnitude == DecimalValue(SelectSeq(body, LAMBDA ch : ch \in Digits), 0)
    IN  IF ~valid THEN None
        ELSE IF signed /\ t[1] = "-" THEN Some(-magnitude) ELSE Some(magnitude)

\* lines 152-158: the try block; a missing key (KeyError) and an unparsable
\* text (ValueError) both land in the bare except
dom_score(record) ==
    IF "days_on_market" \notin DOMAIN record THEN 10
    ELSE LET dom == ParseInt(record.days_on_market)
         IN  IF dom = None THEN 10
             ELSE IF dom[1] > 120 THEN 40
             ELSE IF dom[1] > 90 THEN 30
             ELSE IF dom[1] > 60 THEN 20
             ELSE 0

CallTodayScore == 70
CallThisWeekScore == 50

\* a scorer whose first threshold is the top days-on-market score
recommended_action_at_40(score) ==
    IF score >= 40 THEN "CALL TODAY - Strong opportunity"
    ELSE IF score >= CallThisWeekScore THEN "CALL THIS WEEK - Good potential"
    ELSE "RESEARCH MORE - Gather intel"

\* lines 163-168
recommended_action(score) ==
    IF score >= CallTodayScore THEN "CALL TODAY - Strong opportunity"
    ELSE IF score >= CallThisWeekScore THEN "CALL THIS WEEK - Good potential"
    ELSE "RESEARCH MORE - Gather intel"

\* the call's outcome: the dict it returns, or the exception that leaves it
\* (line 173 reads property_data['days_on_market'] outside the try block)
calculate_opportunity_score(record) ==
    IF "days_on_market" \notin DOMAIN record
    THEN [kind |-> "raise", exc |-> "KeyError"]
    ELSE [kind |-> "return",
          value |-> [opportunity_score |-> dom_score(record),
                     recommended_action |-> recommended_action(dom_score(record)),
                     analysis_notes |-> <<"DOM: ", record.days_on_market, " days">>]]

MaxDomLen == 3

DomAlphabet == {"0", "1", "2", "4", "5", "6", "9", " ", "-", "_", "U"}

Unknown == <<"U", "n", "k", "n", "o", "w", "n">>

DomTexts ==
    UNION {[1..n -> DomAlphabet] : n \in 0..MaxDomLen} \cup {Unknown}

\* records with a days_on_market text, and one record without the key
ScoreInputs ==
    {[address |-> "12 Oak St", days_on_market |-> d] : d \in DomTexts}
        \cup {[address |-> "12 Oak St"]}

(***************************************************************************)
(* SpecScore: one call of calculate_opportunity_score on any record.       *)
(***************************************************************************)
NoConfigs ==
    /\ heap = <<>>
    /\ configs = <<>>
    /\ calculated = {}
    /\ ret = NoCall

InitScore ==
    /\ NoConfigs
    /\ ScraperIdle
    /\ property_data \in ScoreInputs
    /\ scored = NoCall

CalculateOpportunityScore ==
    /\ scored = NoCall
    /\ scored' = calculate_opportunity_score(property_data)
    /\ UNCHANGED <<property_data, cfgVars, scraperVars>>

NextScore == CalculateOpportunityScore

SpecScore == InitScore /\ [][NextScore]_vars

(***************************************************************************)
(* Claims about calculate_opportunity_score                                *)
(***************************************************************************)
Scored == scored # NoCall

\* the days-on-market text of the record, None when the key is missing
DomOf(record) ==
    IF "days_on_market" \in DOMAIN record THEN Some(record.days_on_market) ELSE None

\* the days on market as an integer, None when the text is missing or is not
\* an integer
DomInt(record) ==
    IF DomOf(record) = None THEN None ELSE ParseInt(DomOf(record)[1])

\* C4: for every record the call returns opportunity_score 40 when
\* days_on_market parses to more than 120, 30 when more than 90, 20 when more
\* than 60, 0 when it parses to 60 or less, and 10 when it does not parse
\* (non-numeric or missing); no other score is produced.
C4_ScoreFollowsTiers ==
    Scored =>
        /\ scored.kind = "return"
        /\ scored.value.opportunity_score =
              (IF DomInt(property_data) = None THEN 10
               ELSE IF DomInt(property_data)[1] > 120 THEN 40
               ELSE IF DomInt(property_data)[1] > 90 THEN 30
               ELSE IF DomInt(property_data)[1] > 60 THEN 20
               ELSE 0)

Text150 == <<"1", "5", "0">>
Text95 == <<"9", "5">>
Text45 == <<"4", "5">>

ScoredAs(text, score, action) ==
    (Scored /\ DomOf(property_data) = Some(text))
    => /\ scored.kind = "return"
       /\ scored.value.opportunity_score = score
       /\ scored.value.recommended_action = action

\* C5: a record is scored 40 with "RESEARCH MORE - Gather intel" at 150 days
\* on market, 30 with the same action at 95 days, 0 with the same action at
\* 45 days and 10 with the same action for "Unknown": every record that is
\* scored gets "RESEARCH MORE - Gather intel", because the score never
\* reaches the 50 that the first call action needs.
C5_EveryScoreAdvisesResearch ==
    /\ ScoredAs(Text150, 40, "RESEARCH MORE - Gather intel")
    /\ ScoredAs(Text95, 30, "RESEARCH MORE - Gather intel")
    /\ ScoredAs(Text45, 0, "RESEARCH MORE - Gather intel")
    /\ ScoredAs(Unknown, 10, "RESEARCH MORE - Gather intel")
    /\ (Scored /\ scored.kind = "return")
       => /\ scored.value.opportunity_score < CallThisWeekScore
          /\ scored.value.recommended_action = "RESEARCH MORE - Gather intel"

\* the records of C5 have been scored and the call returned
C5_Witness ==
    /\ Scored /\ scored.kind = "return"
    /\ DomOf(property_data) = Some(Text150)
    /\ scored.value.opportunity_score = 40

\* C5 as the specification words it: 150 days gives 40 and "CALL TODAY",
\* 95 days gives 30 and "CALL THIS WEEK", 45 days gives 0 and "RESEARCH MORE",
\* "Unknown" gives 10 and "RESEARCH MORE".
C5_ActionsAsSpecified ==
    /\ ScoredAs(Text150, 40, "CALL TODAY - Strong opportunity")
    /\ ScoredAs(Text95, 30, "CALL THIS WEEK - Good potential")
    /\ ScoredAs(Text45, 0, "RESEARCH MORE - Gather intel")
    /\ ScoredAs(Unknown, 10, "RESEARCH MORE - Gather intel")

\* C6: no exception leaves calculate_opportunity_score; a record whose
\* days_on_market is missing or not numeric still gets a result with score 10,
\* an action and notes.
C6_ScoringNeverRaises ==
    Scored =>
        /\ scored.kind = "return"
        /\ DomInt(property_data) = None
           => /\ scored.value.opportunity_score = 10
              /\ {"recommended_action", "analysis_notes"} \subseteq DOMAIN scored.value

(***************************************************************************)
(* ZillowWholesaleScraper.  A property card of the result page is what the *)
(* selectors find in it: the text of its address and price elements (None  *)
(* when the element is absent), the texts of its detail spans, the texts   *)
(* of the elements that mention 'days on Zillow', and the href of its      *)
(* first anchor (None when it has no anchor).  A text is a sequence of     *)
(* tokens; the first token of a days-on-Zillow text is a character string. *)
(***************************************************************************)
Card(addr, price, details, dom, href) ==
    [addr |-> addr, price |-> price, details |-> details, dom |-> dom, href |-> href]

\* str.replace(token, '')
Replace(text, token) == SelectSeq(text, LAMBDA t : t # token)

\* str.split()[0]
FirstWord(text) == Head(text)

\* lines 99-134: the record of a card, None when a find_element call raises
extract_property_data(card) ==
    IF card.addr = None \/ card.price = None \/ card.href = None THEN None
    ELSE LET full == Len(card.details) >= 3
         IN  Some([address |-> card.addr[1],
                   price |-> card.price[1],
                   bedrooms |-> IF full THEN Replace(card.details[1], " bd")
                                ELSE <<"N/A">>,
                   bathrooms |-> IF full THEN Replace(card.details[2], " ba")
                                 ELSE <<"N/A">>,
                   square_feet |-> IF full
                                   THEN Replace(Replace(card.details[3], " sqft"), ",")
                                   ELSE <<"N/A">>,
                   days_on_market |-> IF card.dom # <<>> THEN FirstWord(card.dom[1])
                                      ELSE Unknown,
                   url |-> card.href[1],
                   scraped_date |-> "now"])

\* lines 90-93: the records appended for the cards, in order
RECURSIVE Extracted(_)
Extracted(cards) ==
    IF cards = <<>> THEN <<>>
    ELSE LET data == extract_property_data(Head(cards))
         IN  (IF data # None THEN <<data[1]>> ELSE <<>>) \o Extracted(Tail(cards))

DefaultMaxResults == 10

\* self.config.get('max_results', 10)
max_results(cfg) ==
    IF "max_results" \in DOMAIN cfg THEN cfg.max_results ELSE DefaultMaxResults

\* property_cards[:n] for n >= 0
Taken(cards, n) == SubSeq(cards, 1, IF n < Len(cards) THEN n ELSE Len(cards))

MaxCards == 2
MaxSearches == 2

DaysOnZillow(days) == <<days, "days", "on", "Zillow">>

ThreeDetails == << <<"3", " bd">>, <<"2", " ba">>, <<"1", ",", "500", " sqft">> >>

StaleCard ==
    Card(Some("12 Oak St"), Some("$100,000"), ThreeDetails,
         <<DaysOnZillow(Text150)>>, Some("/homedetails/1"))
AgingCard ==
    Card(Some("34 Elm Ave"), Some("$150,000"), ThreeDetails,
         <<DaysOnZillow(Text95)>>, Some("/homedetails/2"))
BareCard ==
    Card(Some("56 Pine Rd"), Some("$90,000"), << <<"2", " bd">> >>, <<>>,
         Some("/homedetails/3"))
NoAddressCard ==
    Card(None, Some("$80,000"), ThreeDetails, <<DaysOnZillow(Text45)>>,
         Some("/homedetails/4"))

Cards == {StaleCard, AgingCard, BareCard, NoAddressCard}

\* the cards a result page can show
Pages == UNION {[1..n -> Cards] : n \in 0..MaxCards}

MaxResultsValues == {1, 2}

SampleConfig == [location_type |-> "county", county |-> "Wake", state |-> "NC"]

ScraperConfigs ==
    {SampleConfig} \cup {SampleConfig @@ ("max_results" :> m) : m \in MaxResultsValues}

Result(op, kind, value) == [op |-> op, kind |-> kind, value |-> value]

\* search_properties() on a page that shows the given cards
SearchProperties(cards) ==
    /\ searches < MaxSearches
    /\ searches' = searches + 1
    /\ driver' = IF driver = None THEN Some("Chrome") ELSE driver
    /\ IF cards = <<>>
       THEN /\ taken' = <<>>
            /\ out' = Result("search_properties", "return", <<>>)
            /\ UNCHANGED properties
       ELSE /\ taken' = Taken(cards, max_results(config))
            /\ properties' = properties \o Extracted(taken')
            /\ out' = Result("search_properties", "return", properties')
    /\ UNCHANGED <<config, analyzed, exported, cfgVars, scoreVars>>

\* prop.update(analysis)
Updated(prop) == calculate_opportunity_score(prop).value @@ prop

\* the first record whose scoring raises, 0 when there is none
FirstUnscorable(props) ==
    IF \E i \in 1..Len(props) : calculate_opportunity_score(props[i]).kind = "raise"
    THEN CHOOSE i \in 1..Len(props) :
            /\ calculate_opportunity_score(props[i]).kind = "raise"
            /\ \A j \in 1..(i - 1) : calculate_opportunity_score(props[j]).kind = "return"
    ELSE 0

\* analyze_deals(): the records are updated in place, one after the other
AnalyzeDeals ==
    /\ IF FirstUnscorable(properties) = 0
       THEN /\ properties' = [i \in 1..Len(properties) |-> Updated(properties[i])]
            /\ analyzed' = Some(properties')
            /\ out' = Result("analyze_deals", "return", properties')
       ELSE /\ properties' = [i \in 1..Len(properties) |->
                                 IF i < FirstUnscorable(properties)
                                 THEN Updated(properties[i]) ELSE properties[i]]
            /\ out' = Result("analyze_deals", "raise", "KeyError")
            /\ UNCHANGED analyzed
    /\ UNCHANGED <<config, driver, taken, searches, exported, cfgVars, scoreVars>>

\* export_call_sheets(): exported is the data handed to the DataFrame
ExportCallSheets ==
    /\ IF properties = <<>>
       THEN /\ out' = Result("export_call_sheets", "return", None)
            /\ UNCHANGED exported
       ELSE /\ exported' = Some(properties)
            /\ out' = Result("export_call_sheets", "return", "call_sheets.csv")
    /\ UNCHANGED <<config, driver, properties, taken, searches, analyzed, cfgVars, scoreVars>>

(***************************************************************************)
(* SpecScraper: one ZillowWholesaleScraper, constructed with any of the    *)
(* configurations, whose methods are called in any order.                  *)
(***************************************************************************)
InitScraper ==
    /\ NoConfigs
    /\ ScoreIdle
    /\ config \in ScraperConfigs
    /\ driver = None
    /\ properties = <<>>
    /\ taken = <<>>
    /\ searches = 0
    /\ analyzed = None
    /\ exported = None
    /\ out = NoCall

NextScraper ==
    \/ \E cards \in Pages : SearchProperties(cards)
    \/ AnalyzeDeals
    \/ ExportCallSheets

SpecScraper == InitScraper /\ [][NextScraper]_vars

(***************************************************************************)
(* Claims about the scraper                                                *)
(***************************************************************************)
Enriched(r) ==
    {"opportunity_score", "recommended_action", "analysis_notes"} \subseteq DOMAIN r

\* the score a record gets when it is scored on its own
ScoreAlone(r) == dom_score([days_on_market |-> r.days_on_market])

\* C8: search_properties followed by analyze_deals yields one enriched record
\* per card taken, in the order of the cards; a card with missing fields is
\* kept, with sentinel values, and each record has the score it gets on its
\* own.
C8_OneRecordPerCard ==
    (searches = 1 /\ out.op = "analyze_deals")
    => /\ out.kind = "return"
       /\ Len(out.value) = Len(taken)
       /\ \A i \in 1..Len(taken) :
             i <= Len(out.value)
             => /\ Enriched(out.value[i])
                /\ out.value[i].url = taken[i].href[1]
                /\ out.value[i].opportunity_score = ScoreAlone(out.value[i])

\* C10: after any sequence of calls the scraper holds at most max_results
\* records, and what the export hands over is the sequence that analyze_deals
\* returned.
C10_BatchBoundedAndExportedAsAnalyzed ==
    /\ Len(properties) <= max_results(config)
    /\ (exported # None /\ analyzed # None) => exported = analyzed

=============================================================================
